---- MODULE Spec2Model ----
(***************************************************************************)
(* A model of the darksky client library: the option validators and the    *)
(* request builder of request.go, and the client and response handler of   *)
(* darksky.go (Forecast, TimeMachine, handleRequest, extractContent,       *)
(* unmarshalContent, uncompressGzip, close).                               *)
(*                                                                         *)
(* Go strings that the code inspects character by character (option        *)
(* arguments, query values) are sequences of one-character strings; texts  *)
(* the code only passes along or formats are TLA+ strings.  A response      *)
(* body is a sequence of lexical tokens.                                   *)
(***************************************************************************)
EXTENDS Integers, Sequences, FiniteSets, TLC

\* ------------------------------------------------------------------------
\* Bounds of the model
\* ------------------------------------------------------------------------

\* longest option list passed to Forecast / TimeMachine
MaxOpts == 2

\* longest list passed to ExcludeOption
MaxExclude == 3

\* most members of a JSON object in a response body
MaxMembers == 2

\* longest option list passed to NewAPI
MaxAPIOpts == 2

\* most calls of Forecast / TimeMachine running at the same time
MaxCalls == 2

\* ------------------------------------------------------------------------
\* strings
\* ------------------------------------------------------------------------

Upper == <<"A","B","C","D","E","F","G","H","I","J","K","L","M",
           "N","O","P","Q","R","S","T","U","V","W","X","Y","Z">>

Lower == <<"a","b","c","d","e","f","g","h","i","j","k","l","m",
           "n","o","p","q","r","s","t","u","v","w","x","y","z">>

IsUpper(c) == \E i \in 1..Len(Upper) : Upper[i] = c

ToLowerChar(c) ==
  IF IsUpper(c) THEN Lower[CHOOSE i \in 1..Len(Upper) : Upper[i] = c] ELSE c

\* strings.ToLower
ToLower(s) == [i \in 1..Len(s) |-> ToLowerChar(s[i])]

\* the Go string spelled by a sequence of characters
RECURSIVE Str(_)
Str(s) == IF s = <<>> THEN "" ELSE s[1] \o Str(Tail(s))

\* strings.Join
RECURSIVE Join(_, _)
Join(strs, sep) ==
  IF strs = <<>> THEN <<>>
  ELSE IF Len(strs) = 1 THEN strs[1]
  ELSE strs[1] \o sep \o Join(Tail(strs), sep)

\* ------------------------------------------------------------------------
\* request.go: constants, allow-lists, errors
\* ------------------------------------------------------------------------

scheme == "https"
host == "api.darksky.net"
basePath == "forecast"

languageOptionKey == "lang"
excludeOptionKey == "exclude"
extendOptionKey == "extend"
extendOptionValue == <<"h","o","u","r","l","y">>
unitOptionKey == "units"

\* an error value: its dynamic type, the text its Error method returns, and
\* the value field an excludeOptionError holds
GoError(type, msg, value) == [type |-> type, msg |-> msg, value |-> value]

\* the nil error
nil == GoError("nil", "", <<>>)

ErrLanguageNotSupported ==
  GoError("*errors.errorString", "Language provided is not supported.", <<>>)

ErrUnitNotSupported ==
  GoError("*errors.errorString", "Unit provided is not supported.", <<>>)

ErrExcludeOptionNotUnique ==
  GoError("*errors.errorString",
          "Exclude options must be unique within the same group.", <<>>)

supportedLanguages ==
  << <<"a","r">>,
     <<"a","z">>,
     <<"b","e">>,
     <<"b","g">>,
     <<"b","s">>,
     <<"c","a">>,
     <<"c","s">>,
     <<"d","a">>,
     <<"d","e">>,
     <<"e","l">>,
     <<"e","n">>,
     <<"e","s">>,
     <<"e","t">>,
     <<"f","i">>,
     <<"f","r">>,
     <<"h","e">>,
     <<"h","r">>,
     <<"h","u">>,
     <<"i","d">>,
     <<"i","s">>,
     <<"i","t">>,
     <<"j","a">>,
     <<"k","a">>,
     <<"k","o">>,
     <<"k","w">>,
     <<"l","v">>,
     <<"n","b">>,
     <<"n","l">>,
     <<"n","o">>,
     <<"p","l">>,
     <<"p","t">>,
     <<"r","o">>,
     <<"r","u">>,
     <<"s","k">>,
     <<"s","l">>,
     <<"s","r">>,
     <<"s","v">>,
     <<"t","e">>,
     <<"t","r">>,
     <<"u","k">>,
     <<"x","-","p","i","g","-","l","a","t","i","n">>,
     <<"z","h">>,
     <<"z","h","-","t","w">> >>

supportedExclude ==
  << <<"c","u","r","r","e","n","t","l","y">>,
     <<"m","i","n","u","t","e","l","y">>,
     <<"h","o","u","r","l","y">>,
     <<"d","a","i","l","y">>,
     <<"a","l","e","r","t","s">>,
     <<"f","l","a","g","s">> >>

supportedUnits ==
  << <<"a","u","t","o">>,
     <<"c","a">>,
     <<"u","k","2">>,
     <<"u","s">>,
     <<"s","i">> >>

\* ------------------------------------------------------------------------
\* request.go: options.  An Option is a closure over its argument; the
\* model keeps the argument and applies the closure body with ApplyOpt.
\* url.Values is a map from key to a list of values.
\* ------------------------------------------------------------------------

newOptionError(value) ==
  GoError("*excludeOptionError",
          "Unsupported value for exclude option : " \o Str(value), value)

\* make(url.Values)
EmptyValues == [k \in {} |-> <<>>]

\* url.Values.Set, had it added the value to those the key holds
Set_add(v, key, value) ==
  [k \in (DOMAIN v) \cup {key} |->
     IF k = key THEN (IF key \in DOMAIN v THEN v[key] ELSE <<>>) \o <<value>>
     ELSE v[k]]

\* url.Values.Set: replaces whatever the key held by the one value
Set(v, key, value) ==
  [k \in (DOMAIN v) \cup {key} |-> IF k = key THEN <<value>> ELSE v[k]]

InList(list, s) == \E i \in 1..Len(list) : list[i] = s

Count(list, s) == Cardinality({i \in 1..Len(list) : list[i] = s})
\* LanguageOption, had it set the parameter without the check
LanguageOption_unchecked(lang, v) ==
  LET lowerLang == ToLower(lang)
  IN  [err |-> nil, v |-> Set(v, languageOptionKey, lowerLang)]

LanguageOption(lang, v) ==
  LET lowerLang == ToLower(lang)
      supported == InList(supportedLanguages, lowerLang)
  IN  IF ~supported
        THEN [err |-> ErrLanguageNotSupported, v |-> v]
        ELSE [err |-> nil, v |-> Set(v, languageOptionKey, lowerLang)]
\* toLower, had it left the entries as they are
toLower_asGiven(strs) == strs

toLower(strs) == [i \in 1..Len(strs) |-> ToLower(strs[i])]

\* the loop of ExcludeOption, had it counted before it looked the entry up
RECURSIVE excludeLoop_countFirst(_, _)
excludeLoop_countFirst(lowerExcludes, i) ==
  IF i > Len(lowerExcludes) THEN nil
  ELSE LET e == lowerExcludes[i]
           supported == InList(supportedExclude, e)
           count == Count(lowerExcludes, e)
       IN  IF count > 1 THEN ErrExcludeOptionNotUnique
           ELSE IF ~supported THEN newOptionError(e)
           ELSE excludeLoop_countFirst(lowerExcludes, i + 1)

\* the loop of ExcludeOption over the lower-cased entries
RECURSIVE excludeLoop(_, _)
excludeLoop(lowerExcludes, i) ==
  IF i > Len(lowerExcludes) THEN nil
  ELSE LET e == lowerExcludes[i]
           supported == InList(supportedExclude, e)
           count == Count(lowerExcludes, e)
       IN  IF ~supported THEN newOptionError(e)
           ELSE IF count > 1 THEN ErrExcludeOptionNotUnique
           ELSE excludeLoop(lowerExcludes, i + 1)

\* ExcludeOption, had it set nothing for an empty list
ExcludeOption_skipEmpty(ex, v) ==
  LET lowerExcludes == toLower(ex)
      err == excludeLoop(lowerExcludes, 1)
  IN  IF err # nil
        THEN [err |-> err, v |-> v]
        ELSE IF ex = <<>> THEN [err |-> nil, v |-> v]
        ELSE [err |-> nil,
              v |-> Set(v, excludeOptionKey,
                        <<"[">> \o Join(lowerExcludes, <<",">>) \o <<"]">>)]

\* ExcludeOption, had it joined the entries as the caller wrote them
ExcludeOption_asGiven(ex, v) ==
  LET lowerExcludes == toLower(ex)
      err == excludeLoop(lowerExcludes, 1)
  IN  IF err # nil
        THEN [err |-> err, v |-> v]
        ELSE [err |-> nil,
              v |-> Set(v, excludeOptionKey,
                        <<"[">> \o Join(ex, <<",">>) \o <<"]">>)]

ExcludeOption(ex, v) ==
  LET lowerExcludes == toLower(ex)
      err == excludeLoop(lowerExcludes, 1)
  IN  IF err # nil
        THEN [err |-> err, v |-> v]
        ELSE [err |-> nil,
              v |-> Set(v, excludeOptionKey,
                        <<"[">> \o Join(lowerExcludes, <<",">>) \o <<"]">>)]

ExtendOption(v) ==
  [err |-> nil, v |-> Set(v, extendOptionKey, extendOptionValue)]

\* UnitOption, had it set the parameter before it reported the code
UnitOption_setFirst(u, v) ==
  LET lowerUnit == ToLower(u)
      supported == InList(supportedUnits, lowerUnit)
  IN  IF ~supported
        THEN [err |-> ErrUnitNotSupported, v |-> Set(v, unitOptionKey, lowerUnit)]
        ELSE [err |-> nil, v |-> Set(v, unitOptionKey, lowerUnit)]

\* UnitOption, had it compared and set the code as the caller wrote it
UnitOption_asGiven(u, v) ==
  LET supported == InList(supportedUnits, u)
  IN  IF ~supported
        THEN [err |-> ErrUnitNotSupported, v |-> v]
        ELSE [err |-> nil, v |-> Set(v, unitOptionKey, u)]

UnitOption(u, v) ==
  LET lowerUnit == ToLower(u)
      supported == InList(supportedUnits, lowerUnit)
  IN  IF ~supported
        THEN [err |-> ErrUnitNotSupported, v |-> v]
        ELSE [err |-> nil, v |-> Set(v, unitOptionKey, lowerUnit)]

\* an option value: which constructor made it, and its argument
Opt(fn, arg, list) == [fn |-> fn, arg |-> arg, list |-> list]

\* opt(&q)
ApplyOpt(opt, v) ==
  CASE opt.fn = "LanguageOption" -> LanguageOption(opt.arg, v)
    [] opt.fn = "ExcludeOption" -> ExcludeOption(opt.list, v)
    [] opt.fn = "ExtendOption" -> ExtendOption(v)
    [] opt.fn = "UnitOption" -> UnitOption(opt.arg, v)

\* ------------------------------------------------------------------------
\* request.go: the request builder
\* ------------------------------------------------------------------------

\* the four keys the options set, in the sorted order url.Values.Encode
\* walks them
SortedKeys == <<excludeOptionKey, extendOptionKey, languageOptionKey, unitOptionKey>>

\* url.QueryEscape of one character, for the characters option values hold
QueryEscapeChar(c) ==
  CASE c = "[" -> "%5B"
    [] c = "]" -> "%5D"
    [] c = "," -> "%2C"
    [] c = " " -> "+"
    [] OTHER -> c

\* url.QueryEscape
RECURSIVE QueryEscape(_)
QueryEscape(s) ==
  IF s = <<>> THEN "" ELSE QueryEscapeChar(s[1]) \o QueryEscape(Tail(s))

\* key=value for every value of the key, "&"-separated
RECURSIVE EncodeKey(_, _)
EncodeKey(key, vals) ==
  IF vals = <<>> THEN ""
  ELSE key \o "=" \o QueryEscape(vals[1])
       \o (IF Len(vals) > 1 THEN "&" \o EncodeKey(key, Tail(vals)) ELSE "")

\* url.Values.Encode over the keys from position k on
RECURSIVE EncodeFrom(_, _)
EncodeFrom(v, k) ==
  IF k > Len(SortedKeys) THEN ""
  ELSE LET key == SortedKeys[k]
           rest == EncodeFrom(v, k + 1)
       IN  IF key \in DOMAIN v /\ v[key] # <<>>
             THEN EncodeKey(key, v[key]) \o (IF rest = "" THEN "" ELSE "&" \o rest)
             ELSE rest

\* url.Values.Encode
Encode(v) == EncodeFrom(v, 1)

\* fmt's %3.4f of a coordinate given in ten-thousandths of a degree
FormatCoord(x) ==
  LET a == IF x < 0 THEN -x ELSE x
      frac == a % 10000
      pad == IF frac < 10 THEN "000"
             ELSE IF frac < 100 THEN "00"
             ELSE IF frac < 1000 THEN "0" ELSE ""
  IN  (IF x < 0 THEN "-" ELSE "") \o ToString(a \div 10000) \o "." \o pad
      \o ToString(frac)

\* A point in time is its Unix seconds hi * 2^16 + lo (two limbs: the value
\* may exceed the 32-bit range).  int32(t.Unix()) keeps the low 32 bits.
Int32OfUnix(t) ==
  LET h == t.hi % 65536
  IN  IF h >= 32768 THEN (h - 65536) * 65536 + t.lo ELSE h * 65536 + t.lo

\* the path newForecastRequest formats
ForecastPath(secret, lat, lng) ==
  "/" \o basePath \o "/" \o secret \o "/" \o FormatCoord(lat) \o ","
  \o FormatCoord(lng)

\* the path newTimeMachineRequest formats
TimeMachinePath(secret, lat, lng, t) ==
  ForecastPath(secret, lat, lng) \o "," \o ToString(Int32OfUnix(t))

\* url.URL.String, had it written the "?" whatever the query
URLString_alwaysQuery(path, rawQuery) ==
  scheme \o "://" \o host \o path \o "?" \o rawQuery

\* url.URL.String
URLString(path, rawQuery) ==
  scheme \o "://" \o host \o path
  \o (IF rawQuery = "" THEN "" ELSE "?" \o rawQuery)

\* no request (a nil *http.Request)
NoRequest == [method |-> "", url |-> "", header |-> EmptyValues]

\* http.Header.Add
Add(h, key, value) ==
  [k \in (DOMAIN h) \cup {key} |->
     IF k = key THEN (IF key \in DOMAIN h THEN h[key] ELSE <<>>) \o <<value>>
     ELSE h[k]]

\* the tail of newRequest, had it left out the Accept header
BuiltRequest_noAccept(path, v) ==
  [method |-> "GET",
   url |-> URLString(path, Encode(v)),
   header |-> Add(EmptyValues, "Accept-Encoding", "gzip")]

\* the tail of newRequest, once every option is applied
BuiltRequest(path, v) ==
  [method |-> "GET",
   url |-> URLString(path, Encode(v)),
   header |-> Add(Add(EmptyValues, "Accept-Encoding", "gzip"),
                  "Accept", "application/json")]

\* ------------------------------------------------------------------------
\* darksky.go: response bodies.  A body is a sequence of tokens: braces,
\* object members with a number or a string value, the literal null, plain
\* text, and the framing a gzip stream puts around its payload.
\* ------------------------------------------------------------------------

Tok(t, key, num, str) == [t |-> t, key |-> key, num |-> num, str |-> str]

LBrace == Tok("{", "", 0, "")
RBrace == Tok("}", "", 0, "")
Null == Tok("null", "", 0, "")
Text(s) == Tok("text", "", 0, s)
NumMember(key, n) == Tok("num", key, n, "")
StrMember(key, s) == Tok("str", key, 0, s)
GzipHeader == Tok("gzip-header", "", 0, "")
\* the trailer of a gzip stream records the size of the payload
GzipTrailer(n) == Tok("gzip-trailer", "", n, "")

IsMember(tok) == tok.t \in {"num", "str"}

\* the text of one token
Lexeme(tok) ==
  CASE tok.t = "num" -> "\"" \o tok.key \o "\":" \o ToString(tok.num)
    [] tok.t = "str" -> "\"" \o tok.key \o "\":\"" \o tok.str \o "\""
    [] tok.t = "text" -> tok.str
    [] tok.t = "gzip-trailer" -> "gzip-trailer:" \o ToString(tok.num)
    [] OTHER -> tok.t

\* string(content): the text of the body, members separated by commas
RECURSIVE String(_)
String(content) ==
  IF content = <<>> THEN ""
  ELSE Lexeme(content[1])
       \o (IF Len(content) > 1 /\ IsMember(content[1]) /\ IsMember(content[2])
             THEN "," ELSE "")
       \o String(Tail(content))

\* gzip.NewWriter(...).Write(body); Close()
Gzip(body) == <<GzipHeader>> \o body \o <<GzipTrailer(Len(body))>>

\* errors of the standard library
EOF == GoError("*errors.errorString", "EOF", <<>>)
ErrUnexpectedEOF == GoError("*errors.errorString", "unexpected EOF", <<>>)
ErrHeader == GoError("*errors.errorString", "gzip: invalid header", <<>>)
ErrChecksum == GoError("*errors.errorString", "gzip: invalid checksum", <<>>)
SyntaxError == GoError("*json.SyntaxError", "invalid character", <<>>)
UnmarshalTypeError ==
  GoError("*json.UnmarshalTypeError", "json: cannot unmarshal", <<>>)

\* gzip.NewReader(buf): reads the header
NewReader(body) ==
  IF body = <<>> THEN EOF
  ELSE IF body[1] # GzipHeader THEN ErrHeader
  ELSE nil

\* ioutil.ReadAll(gr), had it returned what a cut or damaged stream holds
GzipReadAll_lenient(body) ==
  LET n == Len(body)
  IN  IF n < 2 \/ body[n].t # "gzip-trailer"
        THEN [b |-> SubSeq(body, 2, n), err |-> nil]
        ELSE [b |-> SubSeq(body, 2, n - 1), err |-> nil]

\* ioutil.ReadAll(gr): the payload up to the trailer, or why it cannot be read
GzipReadAll(body) ==
  LET n == Len(body)
  IN  IF n < 2 \/ body[n].t # "gzip-trailer"
        THEN [b |-> <<>>, err |-> ErrUnexpectedEOF]
      ELSE IF body[n].num # n - 2
        THEN [b |-> <<>>, err |-> ErrChecksum]
      ELSE [b |-> SubSeq(body, 2, n - 1), err |-> nil]

\* gr.Close(): the error of the decompressor, unless it reached the end
GzipClose(body) ==
  IF GzipReadAll(body).err = ErrUnexpectedEOF THEN ErrUnexpectedEOF ELSE nil

\* close(c, l): what l.Println adds to the log
close(closeErr, log) == IF closeErr # nil THEN Append(log, closeErr.msg) ELSE log
\* uncompressGzip, had it returned what it was given
uncompressGzip_raw(body, log) ==
  LET err == NewReader(body)
  IN  IF err # nil
        THEN [b |-> <<>>, err |-> err, log |-> log]
        ELSE LET r == GzipReadAll(body)
             IN  [b |-> body, err |-> r.err, log |-> close(GzipClose(body), log)]

\* uncompressGzip(body, logger): the bytes, the error and the log afterwards
uncompressGzip(body, log) ==
  LET err == NewReader(body)
  IN  IF err # nil
        THEN [b |-> <<>>, err |-> err, log |-> log]
        ELSE LET r == GzipReadAll(body)
             IN  [b |-> r.b, err |-> r.err, log |-> close(GzipClose(body), log)]

\* ------------------------------------------------------------------------
\* darksky.go: JSON decoding
\* ------------------------------------------------------------------------

\* the body is one JSON object
IsObject(content) ==
  /\ Len(content) >= 2
  /\ content[1] = LBrace
  /\ content[Len(content)] = RBrace
  /\ \A k \in 2..(Len(content) - 1) : IsMember(content[k])

\* the body is valid JSON
IsValidJSON(content) == content = <<Null>> \/ IsObject(content)

Members(content) == SubSeq(content, 2, Len(content) - 1)

\* a nil *APIData, and the zero APIData a decoder fills
NilData == [isNil |-> TRUE, latitude |-> 0, timezone |-> ""]
ZeroData == [isNil |-> FALSE, latitude |-> 0, timezone |-> ""]

\* the zero apiError
ZeroAPIError == [Code |-> 0, Err |-> ""]

\* decoding the members of an object into an apiError, in order
RECURSIVE DecodeAPIError(_, _, _)
DecodeAPIError(ms, data, err) ==
  IF ms = <<>> THEN [data |-> data, err |-> err]
  ELSE LET m == ms[1]
           mismatch == \/ m.key = "code" /\ m.t # "num"
                       \/ m.key = "error" /\ m.t # "str"
           next == IF mismatch THEN data
                   ELSE IF m.key = "code" THEN [data EXCEPT !.Code = m.num]
                   ELSE IF m.key = "error" THEN [data EXCEPT !.Err = m.str]
                   ELSE data
       IN  DecodeAPIError(Tail(ms), next,
                          IF mismatch /\ err = nil THEN UnmarshalTypeError ELSE err)

\* json.Unmarshal(content, &data) with data an apiError
UnmarshalAPIError(content) ==
  IF ~IsValidJSON(content) THEN [data |-> ZeroAPIError, err |-> SyntaxError]
  ELSE IF content = <<Null>> THEN [data |-> ZeroAPIError, err |-> nil]
  ELSE DecodeAPIError(Members(content), ZeroAPIError, nil)

\* decoding the members of an object into an APIData, in order
RECURSIVE DecodeAPIData(_, _, _)
DecodeAPIData(ms, data, err) ==
  IF ms = <<>> THEN [data |-> data, err |-> err]
  ELSE LET m == ms[1]
           mismatch == \/ m.key = "latitude" /\ m.t # "num"
                       \/ m.key = "timezone" /\ m.t # "str"
           next == IF mismatch THEN data
                   ELSE IF m.key = "latitude" THEN [data EXCEPT !.latitude = m.num]
                   ELSE IF m.key = "timezone" THEN [data EXCEPT !.timezone = m.str]
                   ELSE data
       IN  DecodeAPIData(Tail(ms), next,
                         IF mismatch /\ err = nil THEN UnmarshalTypeError ELSE err)

\* json.Unmarshal(content, &data) with data a nil *APIData
UnmarshalAPIData(content) ==
  IF ~IsValidJSON(content) THEN [data |-> NilData, err |-> SyntaxError]
  ELSE IF content = <<Null>> THEN [data |-> NilData, err |-> nil]
  ELSE DecodeAPIData(Members(content), ZeroData, nil)

\* ------------------------------------------------------------------------
\* darksky.go: the response handler
\* ------------------------------------------------------------------------

\* strings.Contains on a header value, which is a sequence of segments
Contains(value, segment) == \E k \in 1..Len(value) : value[k] = segment

HTTPError(code, txt) ==
  GoError("*errors.errorString",
          "HTTP " \o ToString(code) \o " Error - " \o txt, <<>>)
\* unmarshalContent, had it made an HTTPError of every other error status
unmarshalContent_everyStatus(resp, content) ==
  LET contentType == resp.contentType
      asError == UnmarshalAPIError(content)
      asData == UnmarshalAPIData(content)
  IN  IF resp.status >= 400 /\ ~Contains(contentType, "application/json")
        THEN [data |-> NilData, err |-> HTTPError(resp.status, String(content))]
      ELSE IF resp.status >= 400
        THEN IF asError.err # nil
               THEN [data |-> NilData, err |-> asError.err]
               ELSE [data |-> NilData, err |-> HTTPError(resp.status, asError.data.Err)]
      ELSE IF asData.err # nil
        THEN [data |-> NilData, err |-> asData.err]
        ELSE [data |-> asData.data, err |-> nil]

\* unmarshalContent, had it taken the code of the error from the body
unmarshalContent_bodyCode(resp, content) ==
  LET contentType == resp.contentType
      asError == UnmarshalAPIError(content)
      asData == UnmarshalAPIData(content)
  IN  IF resp.status >= 400 /\ contentType = <<"text/plain">>
        THEN [data |-> NilData, err |-> HTTPError(resp.status, String(content))]
      ELSE IF resp.status >= 400 /\ Contains(contentType, "application/json")
        THEN IF asError.err # nil
               THEN [data |-> NilData, err |-> asError.err]
               ELSE [data |-> NilData,
                     err |-> HTTPError(asError.data.Code, asError.data.Err)]
      ELSE IF asData.err # nil
        THEN [data |-> NilData, err |-> asData.err]
        ELSE [data |-> asData.data, err |-> nil]

\* unmarshalContent, had it compared the status with > 400
unmarshalContent_above400(resp, content) ==
  LET contentType == resp.contentType
      asError == UnmarshalAPIError(content)
      asData == UnmarshalAPIData(content)
  IN  IF resp.status > 400 /\ contentType = <<"text/plain">>
        THEN [data |-> NilData, err |-> HTTPError(resp.status, String(content))]
      ELSE IF resp.status > 400 /\ Contains(contentType, "application/json")
        THEN IF asError.err # nil
               THEN [data |-> NilData, err |-> asError.err]
               ELSE [data |-> NilData, err |-> HTTPError(resp.status, asError.data.Err)]
      ELSE IF asData.err # nil
        THEN [data |-> NilData, err |-> asData.err]
        ELSE [data |-> asData.data, err |-> nil]

\* unmarshalContent, had it dropped the error of decoding the payload
unmarshalContent_dropErr(resp, content) ==
  LET contentType == resp.contentType
      asError == UnmarshalAPIError(content)
      asData == UnmarshalAPIData(content)
  IN  IF resp.status >= 400 /\ contentType = <<"text/plain">>
        THEN [data |-> NilData, err |-> HTTPError(resp.status, String(content))]
      ELSE IF resp.status >= 400 /\ Contains(contentType, "application/json")
        THEN IF asError.err # nil
               THEN [data |-> NilData, err |-> asError.err]
               ELSE [data |-> NilData, err |-> HTTPError(resp.status, asError.data.Err)]
      ELSE [data |-> asData.data, err |-> nil]

unmarshalContent(resp, content) ==
  LET contentType == resp.contentType
      asError == UnmarshalAPIError(content)
      asData == UnmarshalAPIData(content)
  IN  IF resp.status >= 400 /\ contentType = <<"text/plain">>
        THEN [data |-> NilData, err |-> HTTPError(resp.status, String(content))]
      ELSE IF resp.status >= 400 /\ Contains(contentType, "application/json")
        THEN IF asError.err # nil
               THEN [data |-> NilData, err |-> asError.err]
               ELSE [data |-> NilData, err |-> HTTPError(resp.status, asError.data.Err)]
      ELSE IF asData.err # nil
        THEN [data |-> NilData, err |-> asData.err]
        ELSE [data |-> asData.data, err |-> nil]

\* ------------------------------------------------------------------------
\* darksky.go: the client and its construction
\* ------------------------------------------------------------------------

ErrEmptySecret == GoError("*errors.errorString", "secret cannot be empty", <<>>)
ErrNilHTTPCLient ==
  GoError("*errors.errorString", "HTTP client provided cannot be nil", <<>>)
ErrNilLogger == GoError("*errors.errorString", "logger provided cannot be null", <<>>)

\* a nil transport or logger
NilValue == "nil"

\* http.DefaultClient
DefaultClient == "http.DefaultClient"

\* log.New(os.Stderr, "Darksky API Client - ", log.LstdFlags)
DefaultLogger == "log.New(os.Stderr)"

\* no client (a nil *API)
NilAPI == [secret |-> "", client |-> NilValue, logger |-> NilValue]

HTTPClientOption(c, a) ==
  IF c = NilValue
    THEN [err |-> ErrNilHTTPCLient, api |-> a]
    ELSE [err |-> nil, api |-> [a EXCEPT !.client = c]]

\* LoggerOption, had it stored the logger without the nil check
LoggerOption_unchecked(l, a) == [err |-> nil, api |-> [a EXCEPT !.logger = l]]

LoggerOption(l, a) ==
  IF l = NilValue
    THEN [err |-> ErrNilLogger, api |-> a]
    ELSE [err |-> nil, api |-> [a EXCEPT !.logger = l]]

\* an APIOption value: which constructor made it, and its argument
APIOpt(fn, arg) == [fn |-> fn, arg |-> arg]

\* opt(api)
ApplyAPIOpt(opt, a) ==
  CASE opt.fn = "HTTPClientOption" -> HTTPClientOption(opt.arg, a)
    [] opt.fn = "LoggerOption" -> LoggerOption(opt.arg, a)

\* what NewAPI returns while it has not returned, and no call of NewAPI
NoNewAPIReturn == [api |-> NilAPI, err |-> nil]
NoNewAPI == [pc |-> "idle", secret |-> "", opts |-> <<>>, i |-> 0, applied |-> <<>>,
             api |-> NilAPI, ret |-> NoNewAPIReturn]

\* ------------------------------------------------------------------------
\* Inputs: what a caller passes and what a transport answers
\* ------------------------------------------------------------------------

\* every sequence over S of length at most n
SeqsUpTo(S, n) == UNION {[1..k -> S] : k \in 0..n}

LanguageArgs == {<<"E","n">>, <<"f","r">>, <<"x","x">>}

UnitArgs == {<<"C","A">>, <<"z","z">>}

ExcludeArgs == {<<"h","o","u","r","l","y">>, <<"H","O","U","R","L","Y">>,
                <<"d","a","i","l","y">>, <<"T","E","S","T">>}

LanguageOptions == {Opt("LanguageOption", a, <<>>) : a \in LanguageArgs}

UnitOptions == {Opt("UnitOption", a, <<>>) : a \in UnitArgs}

\* every ExcludeOption over a list of at most MaxExclude entries
ExcludeOptions == {Opt("ExcludeOption", <<>>, l) : l \in SeqsUpTo(ExcludeArgs, MaxExclude)}

\* the options that lists of several options are made of
CoreOptions ==
  LanguageOptions \cup UnitOptions \cup {Opt("ExtendOption", <<>>, <<>>)}
  \cup {Opt("ExcludeOption", <<>>, l) :
          l \in {<<>>, << <<"d","a","i","l","y">> >>, << <<"T","E","S","T">> >>,
                 << <<"h","o","u","r","l","y">>, <<"H","O","U","R","L","Y">> >>}}

\* strings.ToUpper, as the tests use it to change the casing of a code
ToUpperChar(c) ==
  IF \E i \in 1..Len(Lower) : Lower[i] = c
    THEN Upper[CHOOSE i \in 1..Len(Lower) : Lower[i] = c] ELSE c

ToUpper(s) == [i \in 1..Len(s) |-> ToUpperChar(s[i])]

\* a code in three casings: as listed, upper-cased, and with a capital
Casings(c) == {c, ToUpper(c), <<ToUpperChar(c[1])>> \o Tail(c)}

\* every supported language and unit code, in each of these casings
CasedCodeOptions ==
  {Opt("LanguageOption", a, <<>>) :
     a \in UNION {Casings(supportedLanguages[k]) : k \in 1..Len(supportedLanguages)}}
  \cup {Opt("UnitOption", a, <<>>) :
          a \in UNION {Casings(supportedUnits[k]) : k \in 1..Len(supportedUnits)}}

\* the option lists of a call: every list of at most MaxOpts core options,
\* every ExcludeOption on its own, and every supported code on its own
OptionLists ==
  SeqsUpTo(CoreOptions, MaxOpts) \cup {<<o>> : o \in ExcludeOptions}
  \cup {<<o>> : o \in CasedCodeOptions}

\* the secrets and the option lists NewAPI is called with
Secrets == {"", "test-secret"}

APIOptions ==
  {APIOpt("HTTPClientOption", c) : c \in {NilValue, "HTTPClientMock"}}
  \cup {APIOpt("LoggerOption", l) : l \in {NilValue, "custom logger"}}

APIOptionLists == SeqsUpTo(APIOptions, MaxAPIOpts)

\* latitude and longitude, in ten-thousandths of a degree
Coordinates == {[lat |-> 378267, lng |-> -1224233]}

\* points in time: the epoch, a recent instant, and 2^31 seconds
Times == {[hi |-> 0, lo |-> 0], [hi |-> 25000, lo |-> 4660], [hi |-> 32768, lo |-> 0]}

BodyMembers == {NumMember("code", 400), StrMember("error", "Location out of bounds"),
                NumMember("error", 5), NumMember("latitude", 37),
                StrMember("latitude", "x")}

\* the bodies a server sends, before any compression
Contents ==
  {<<LBrace>> \o ms \o <<RBrace>> : ms \in SeqsUpTo(BodyMembers, MaxMembers)}
  \cup {<<>>, <<Null>>, <<Text("Unauthorized")>>, <<LBrace, NumMember("latitude", 37)>>}

\* what is on the wire under a Content-Encoding: for gzip the compressed
\* body, the body left uncompressed, a stream cut before its trailer, and a
\* stream with a wrong trailer
WireBodies(contentEncoding) ==
  IF contentEncoding = "gzip"
    THEN {Gzip(c) : c \in Contents} \cup Contents
         \cup {SubSeq(Gzip(c), 1, Len(c) + 1) : c \in Contents}
         \cup {<<GzipHeader>> \o c \o <<GzipTrailer(Len(c) + 1)>> : c \in Contents}
    ELSE Contents

StatusCodes == {200, 399, 400, 403}

ContentTypes == {<<>>, <<"text/plain">>, <<"application/json">>,
                 <<"application/json", "; charset=utf8">>,
                 <<"text/plain", "; charset=utf-8">>}

ContentEncodings == {"", "gzip", "identity"}

Response(status, contentType, contentEncoding, body, readErr, closeErr) ==
  [status |-> status, contentType |-> contentType,
   contentEncoding |-> contentEncoding, body |-> body,
   readErr |-> readErr, closeErr |-> closeErr]

\* no response (a nil *http.Response)
NoResponse == Response(0, <<>>, "", <<>>, FALSE, FALSE)

\* every response a transport may return under one Content-Encoding
Responses(contentEncoding) ==
  [status : StatusCodes, contentType : ContentTypes,
   contentEncoding : {contentEncoding}, body : WireBodies(contentEncoding),
   readErr : BOOLEAN, closeErr : BOOLEAN]

\* the errors of a transport, of reading a body and of closing one
TransportErrors == {GoError("*url.Error", "Get: dial tcp: i/o timeout", <<>>),
                    GoError("*url.Error", "Get: no such host", <<>>)}
ErrRead == GoError("*net.OpError", "read: connection reset by peer", <<>>)
ErrClose == GoError("*errors.errorString", "close: already closed", <<>>)

\* ------------------------------------------------------------------------
\* The client as a state machine: one call of Forecast or TimeMachine at a
\* time, step by step
\* ------------------------------------------------------------------------

VARIABLES
  api,      \* the client the caller holds: secret, transport, logger
  ctor,     \* the call of NewAPI: its arguments, locals and result
  pc,       \* where the call stands
  kind,     \* "Forecast" or "TimeMachine"
  opts,     \* the options of the call
  path,     \* newRequest's path
  args,     \* the coordinates and the time the call was given
  i,        \* newRequest's position in opts
  q,        \* newRequest's query values
  applied,  \* the positions of the options applied so far
  req,      \* the request handed to handleRequest
  resp,     \* the response Do returned
  doErr,    \* the error Do returned
  content,  \* the content extractContent returned
  ret,      \* what the call returns: payload and error
  doCalls,  \* how often this call invoked the transport's Do
  reads,    \* how often the response body was read
  closes,   \* how often Close was called on the response body
  gunzips,  \* how often uncompressGzip ran
  parses,   \* how often unmarshalContent ran
  log,      \* what this call wrote to the logger
  last,     \* the response and result of the call before, where kept
  calls     \* the locals of the calls that run at the same time, by caller

vars == <<api, ctor, pc, kind, opts, path, args, i, q, applied, req, resp, doErr, content, ret,
          doCalls, reads, closes, gunzips, parses, log, last, calls>>

NoReturn == [data |-> NilData, err |-> nil]
NoLast == [resp |-> NoResponse, ret |-> NoReturn, kept |-> FALSE]

\* the zero time.Time and the arguments of no call
NoTime == [hi |-> 0, lo |-> 0]
NoArgs == [lat |-> 0, lng |-> 0, time |-> NoTime]

\* the locals of a call before it starts
Idle ==
  /\ pc = "idle"
  /\ kind = ""
  /\ opts = <<>>
  /\ path = ""
  /\ args = NoArgs
  /\ i = 0
  /\ q = EmptyValues
  /\ applied = <<>>
  /\ req = NoRequest
  /\ resp = NoResponse
  /\ doErr = nil
  /\ content = <<>>
  /\ ret = NoReturn
  /\ doCalls = 0
  /\ reads = 0
  /\ closes = 0
  /\ gunzips = 0
  /\ parses = 0
  /\ log = <<>>

\* before NewAPI is called the caller holds no client
\* the goroutines that call the client at the same time
Callers == 1..MaxCalls

\* the locals of a caller that is in no call
NoCall ==
  [pc |-> "idle", kind |-> "", opts |-> <<>>, path |-> "", args |-> NoArgs,
   i |-> 0, q |-> EmptyValues, req |-> NoRequest, resp |-> NoResponse,
   doErr |-> nil, content |-> <<>>, ret |-> NoReturn]

Init ==
  /\ api = NilAPI
  /\ ctor = NoNewAPI
  /\ last = NoLast
  /\ Idle
  /\ calls = [c \in Callers |-> NoCall]

\* NewAPI, had it not looked at the secret
NewAPI_anySecret(secrets, lists) ==
  /\ pc = "idle"
  /\ ctor.pc = "idle"
  /\ api = NilAPI
  /\ \E secret \in secrets, o \in lists :
       ctor' = [pc |-> "options", secret |-> secret, opts |-> o, i |-> 1,
                applied |-> <<>>,
                api |-> [secret |-> secret, client |-> NilValue,
                         logger |-> NilValue],
                ret |-> NoNewAPIReturn]
  /\ UNCHANGED <<api, pc, kind, opts, path, args, i, q, applied, req, resp, doErr,
                 content, ret, doCalls, reads, closes, gunzips, parses, log, last, calls>>

\* NewAPI is called: an empty secret ends it, otherwise the API is
\* allocated with the secret and the loop over the options starts
NewAPI(secrets, lists) ==
  /\ pc = "idle"
  /\ ctor.pc = "idle"
  /\ api = NilAPI
  /\ \E secret \in secrets, o \in lists :
       ctor' = IF secret = ""
                 THEN [pc |-> "done", secret |-> secret, opts |-> o, i |-> 0,
                       applied |-> <<>>, api |-> NilAPI,
                       ret |-> [api |-> NilAPI, err |-> ErrEmptySecret]]
                 ELSE [pc |-> "options", secret |-> secret, opts |-> o, i |-> 1,
                       applied |-> <<>>,
                       api |-> [secret |-> secret, client |-> NilValue,
                                logger |-> NilValue],
                       ret |-> NoNewAPIReturn]
  /\ UNCHANGED <<api, pc, kind, opts, path, args, i, q, applied, req, resp, doErr,
                 content, ret, doCalls, reads, closes, gunzips, parses, log, last, calls>>

\* one round of NewAPI's loop: the option is applied to the API; an error
\* ends NewAPI
ApplyAPIOption ==
  /\ ctor.pc = "options"
  /\ ctor.i <= Len(ctor.opts)
  /\ LET r == ApplyAPIOpt(ctor.opts[ctor.i], ctor.api)
     IN  ctor' = IF r.err # nil
                   THEN [ctor EXCEPT !.pc = "done",
                                     !.applied = Append(@, ctor.i),
                                     !.api = r.api,
                                     !.ret = [api |-> NilAPI, err |-> r.err]]
                   ELSE [ctor EXCEPT !.i = @ + 1,
                                     !.applied = Append(@, ctor.i),
                                     !.api = r.api]
  /\ UNCHANGED <<api, pc, kind, opts, path, args, i, q, applied, req, resp, doErr,
                 content, ret, doCalls, reads, closes, gunzips, parses, log, last, calls>>

\* after the loop NewAPI fills in the default transport and logger and
\* returns the API
NewAPIDefaults ==
  /\ ctor.pc = "options"
  /\ ctor.i > Len(ctor.opts)
  /\ LET a == ctor.api
         b == IF a.client = NilValue THEN [a EXCEPT !.client = DefaultClient] ELSE a
         c == IF b.logger = NilValue THEN [b EXCEPT !.logger = DefaultLogger] ELSE b
     IN  ctor' = [ctor EXCEPT !.pc = "done", !.api = c,
                              !.ret = [api |-> c, err |-> nil]]
  /\ UNCHANGED <<api, pc, kind, opts, path, args, i, q, applied, req, resp, doErr,
                 content, ret, doCalls, reads, closes, gunzips, parses, log, last, calls>>

\* NewAPI has returned: the caller holds what it returned, and may call
\* NewAPI again when that is no client
NewAPIReturns ==
  /\ ctor.pc = "done"
  /\ api' = ctor.ret.api
  /\ ctor' = NoNewAPI
  /\ UNCHANGED <<pc, kind, opts, path, args, i, q, applied, req, resp, doErr,
                 content, ret, doCalls, reads, closes, gunzips, parses, log, last, calls>>

\* Forecast calls newForecastRequest, which formats the path and enters
\* newRequest
Forecast(lists) ==
  /\ pc = "idle"
  /\ api # NilAPI
  /\ \E c \in Coordinates, o \in lists :
       /\ kind' = "Forecast"
       /\ opts' = o
       /\ path' = ForecastPath(api.secret, c.lat, c.lng)
       /\ args' = [lat |-> c.lat, lng |-> c.lng, time |-> NoTime]
  /\ pc' = "newRequest"
  /\ i' = 1
  /\ q' = EmptyValues
  /\ UNCHANGED <<api, ctor, applied, req, resp, doErr, content, ret, doCalls, reads, closes,
                 gunzips, parses, log, last, calls>>

\* TimeMachine calls newTimeMachineRequest, which formats the path and
\* enters newRequest
TimeMachine(lists, times) ==
  /\ pc = "idle"
  /\ api # NilAPI
  /\ \E c \in Coordinates, t \in times, o \in lists :
       /\ kind' = "TimeMachine"
       /\ opts' = o
       /\ path' = TimeMachinePath(api.secret, c.lat, c.lng, t)
       /\ args' = [lat |-> c.lat, lng |-> c.lng, time |-> t]
  /\ pc' = "newRequest"
  /\ i' = 1
  /\ q' = EmptyValues
  /\ UNCHANGED <<api, ctor, applied, req, resp, doErr, content, ret, doCalls, reads, closes,
                 gunzips, parses, log, last, calls>>
\* newRequest's loop, had it gone on after an error and kept the last one
ApplyOption_keepGoing ==
  /\ pc = "newRequest"
  /\ i <= Len(opts)
  /\ LET r == ApplyOpt(opts[i], q)
     IN  /\ q' = r.v
         /\ applied' = Append(applied, i)
         /\ i' = i + 1
         /\ ret' = IF r.err # nil THEN [data |-> NilData, err |-> r.err] ELSE ret
         /\ IF i = Len(opts) /\ (r.err # nil \/ ret.err # nil)
              THEN pc' = "done"
              ELSE UNCHANGED pc
  /\ UNCHANGED <<api, ctor, kind, opts, path, args, req, resp, doErr, content, doCalls, reads,
                 closes, gunzips, parses, log, last, calls>>

\* one round of newRequest's loop: the option is applied to q; an error
\* ends newRequest and the call
ApplyOption ==
  /\ pc = "newRequest"
  /\ i <= Len(opts)
  /\ LET r == ApplyOpt(opts[i], q)
     IN  /\ q' = r.v
         /\ applied' = Append(applied, i)
         /\ IF r.err # nil
              THEN /\ ret' = [data |-> NilData, err |-> r.err]
                   /\ pc' = "done"
                   /\ i' = i
              ELSE /\ i' = i + 1
                   /\ UNCHANGED <<ret, pc>>
  /\ UNCHANGED <<api, ctor, kind, opts, path, args, req, resp, doErr, content, doCalls, reads,
                 closes, gunzips, parses, log, last, calls>>

\* after the loop newRequest encodes the query, builds the request and adds
\* the headers
NewRequest ==
  /\ pc = "newRequest"
  /\ i > Len(opts)
  /\ req' = BuiltRequest(path, q)
  /\ pc' = "handleRequest"
  /\ UNCHANGED <<api, ctor, kind, opts, path, args, i, q, applied, resp, doErr, content, ret,
                 doCalls, reads, closes, gunzips, parses, log, last, calls>>

\* handleRequest, had it put the default transport back into the client
Do_defaultClient ==
  /\ pc = "handleRequest"
  /\ doCalls' = doCalls + 1
  /\ pc' = "Do"
  /\ opts' = <<>>
  /\ path' = ""
  /\ args' = NoArgs
  /\ i' = 0
  /\ q' = EmptyValues
  /\ applied' = <<>>
  /\ req' = NoRequest
  /\ api' = [api EXCEPT !.client = DefaultClient]
  /\ UNCHANGED <<ctor, kind, resp, doErr, content, ret, reads, closes, gunzips, parses,
                 log, last, calls>>

\* handleRequest hands the request to the transport and waits.  Nothing
\* after this point reads the request or the arguments it was built from.
Do ==
  /\ pc = "handleRequest"
  /\ doCalls' = doCalls + 1
  /\ pc' = "Do"
  /\ opts' = <<>>
  /\ path' = ""
  /\ args' = NoArgs
  /\ i' = 0
  /\ q' = EmptyValues
  /\ applied' = <<>>
  /\ req' = NoRequest
  /\ UNCHANGED <<api, ctor, kind, resp, doErr, content, ret, reads, closes, gunzips, parses,
                 log, last, calls>>
\* the response with its body compressed and the header set
GzipTwin(r) == [r EXCEPT !.contentEncoding = "gzip", !.body = Gzip(r.body)]

\* the answers of the transport where a gzip response is compared with its
\* plain twin: first any response without Content-Encoding, then its twin
TwinResponses(contentEncoding) ==
  IF last.kept
    THEN IF contentEncoding = "gzip" THEN {GzipTwin(last.resp)} ELSE {}
    ELSE IF contentEncoding = "" THEN Responses("") ELSE {}

\* handleRequest, had it called Do a second time after a transport error
DoReturns_retry(compare, errors) ==
  /\ pc = "Do"
  /\ \/ \E e \in errors :
          /\ doErr' = e
          /\ IF doCalls < 2
               THEN /\ doCalls' = doCalls + 1
                    /\ UNCHANGED <<ret, pc>>
               ELSE /\ ret' = [data |-> NilData, err |-> e]
                    /\ pc' = "done"
                    /\ UNCHANGED doCalls
          /\ UNCHANGED resp
     \/ \E ce \in ContentEncodings :
          \E r \in (IF compare THEN TwinResponses(ce) ELSE Responses(ce)) :
          /\ resp' = r
          /\ pc' = "extractContent"
          /\ UNCHANGED <<doErr, ret, doCalls>>
  /\ UNCHANGED <<api, ctor, kind, opts, path, args, i, q, applied, req, content,
                 reads, closes, gunzips, parses, log, last, calls>>

\* handleRequest, had it returned an error of its own for the transport's
DoReturns_ownError(compare, errors) ==
  /\ pc = "Do"
  /\ \/ \E e \in errors :
          /\ doErr' = e
          /\ ret' = [data |-> NilData,
                     err |-> GoError("*errors.errorString", "request failed", <<>>)]
          /\ pc' = "done"
          /\ UNCHANGED resp
     \/ \E ce \in ContentEncodings :
          \E r \in (IF compare THEN TwinResponses(ce) ELSE Responses(ce)) :
          /\ resp' = r
          /\ pc' = "extractContent"
          /\ UNCHANGED <<doErr, ret>>
  /\ UNCHANGED <<api, ctor, kind, opts, path, args, i, q, applied, req, content, doCalls,
                 reads, closes, gunzips, parses, log, last, calls>>

\* Do returns: an error ends handleRequest, a response goes to
\* extractContent; compare says whether the transport answers for the
\* comparison of a gzip response with its plain twin
DoReturns(compare, errors) ==
  /\ pc = "Do"
  /\ \/ \E e \in errors :
          /\ doErr' = e
          /\ ret' = [data |-> NilData, err |-> e]
          /\ pc' = "done"
          /\ UNCHANGED resp
     \/ \E ce \in ContentEncodings :
          \E r \in (IF compare THEN TwinResponses(ce) ELSE Responses(ce)) :
          /\ resp' = r
          /\ pc' = "extractContent"
          /\ UNCHANGED <<doErr, ret>>
  /\ UNCHANGED <<api, ctor, kind, opts, path, args, i, q, applied, req, content, doCalls,
                 reads, closes, gunzips, parses, log, last, calls>>

\* extractContent, had it returned the error of closing the body
ExtractContent_closeError ==
  /\ pc = "extractContent"
  /\ reads' = reads + 1
  /\ IF resp.readErr
       THEN /\ ret' = [data |-> NilData, err |-> ErrRead]
            /\ pc' = "done"
            /\ UNCHANGED <<content, closes, gunzips, log>>
       ELSE LET body == resp.body
                gz == uncompressGzip(body, log)
                closeErr == IF resp.closeErr THEN ErrClose ELSE nil
            IN  /\ closes' = closes + 1
                /\ IF resp.contentEncoding = "gzip"
                     THEN /\ gunzips' = gunzips + 1
                          /\ log' = close(closeErr, gz.log)
                          /\ IF gz.err # nil
                               THEN /\ ret' = [data |-> NilData, err |-> gz.err]
                                    /\ pc' = "done"
                                    /\ UNCHANGED content
                               ELSE IF closeErr # nil
                               THEN /\ ret' = [data |-> NilData, err |-> closeErr]
                                    /\ pc' = "done"
                                    /\ UNCHANGED content
                               ELSE /\ content' = gz.b
                                    /\ pc' = "unmarshalContent"
                                    /\ UNCHANGED ret
                     ELSE /\ log' = close(closeErr, log)
                          /\ UNCHANGED gunzips
                          /\ IF closeErr # nil
                               THEN /\ ret' = [data |-> NilData, err |-> closeErr]
                                    /\ pc' = "done"
                                    /\ UNCHANGED content
                               ELSE /\ content' = body
                                    /\ pc' = "unmarshalContent"
                                    /\ UNCHANGED ret
  /\ UNCHANGED <<api, ctor, kind, opts, path, args, i, q, applied, req, resp, doErr,
                 doCalls, parses, last, calls>>

\* extractContent: read the body; on success defer its close, decompress a
\* gzip body, and close on the way out
ExtractContent ==
  /\ pc = "extractContent"
  /\ reads' = reads + 1
  /\ IF resp.readErr
       THEN /\ ret' = [data |-> NilData, err |-> ErrRead]
            /\ pc' = "done"
            /\ UNCHANGED <<content, closes, gunzips, log>>
       ELSE LET body == resp.body
                gz == uncompressGzip(body, log)
                closeErr == IF resp.closeErr THEN ErrClose ELSE nil
            IN  /\ closes' = closes + 1
                /\ IF resp.contentEncoding = "gzip"
                     THEN /\ gunzips' = gunzips + 1
                          /\ log' = close(closeErr, gz.log)
                          /\ IF gz.err # nil
                               THEN /\ ret' = [data |-> NilData, err |-> gz.err]
                                    /\ pc' = "done"
                                    /\ UNCHANGED content
                               ELSE /\ content' = gz.b
                                    /\ pc' = "unmarshalContent"
                                    /\ UNCHANGED ret
                     ELSE /\ content' = body
                          /\ log' = close(closeErr, log)
                          /\ pc' = "unmarshalContent"
                          /\ UNCHANGED <<ret, gunzips>>
  /\ UNCHANGED <<api, ctor, kind, opts, path, args, i, q, applied, req, resp, doErr, doCalls,
                 parses, last, calls>>

\* handleRequest passes the content to unmarshalContent and returns what it
\* returns
UnmarshalContent ==
  /\ pc = "unmarshalContent"
  /\ parses' = parses + 1
  /\ LET r == unmarshalContent(resp, content)
     IN  ret' = IF r.err # nil THEN [data |-> NilData, err |-> r.err]
                ELSE [data |-> r.data, err |-> r.err]
  /\ pc' = "done"
  /\ UNCHANGED <<api, ctor, kind, opts, path, args, i, q, applied, req, resp, doErr, content,
                 doCalls, reads, closes, gunzips, log, last, calls>>

\* the call returns to its caller, who may call again; keep says whether
\* the response and the result are remembered for the call after
Return(keep) ==
  /\ pc = "done"
  /\ last' = IF keep /\ doCalls = 1 /\ resp # NoResponse /\ ~last.kept
               THEN [resp |-> resp, ret |-> ret, kept |-> TRUE]
               ELSE NoLast
  /\ pc' = "idle"
  /\ kind' = ""
  /\ opts' = <<>>
  /\ path' = ""
  /\ args' = NoArgs
  /\ i' = 0
  /\ q' = EmptyValues
  /\ applied' = <<>>
  /\ req' = NoRequest
  /\ resp' = NoResponse
  /\ doErr' = nil
  /\ content' = <<>>
  /\ ret' = NoReturn
  /\ doCalls' = 0
  /\ reads' = 0
  /\ closes' = 0
  /\ gunzips' = 0
  /\ parses' = 0
  /\ log' = <<>>
  /\ UNCHANGED <<api, ctor, calls>>

Next ==
  \/ NewAPI(Secrets, APIOptionLists)
  \/ ApplyAPIOption
  \/ NewAPIDefaults
  \/ NewAPIReturns
  \/ Forecast(OptionLists)
  \/ TimeMachine(OptionLists, Times)
  \/ ApplyOption
  \/ NewRequest
  \/ Do
  \/ DoReturns(FALSE, TransportErrors)
  \/ ExtractContent
  \/ UnmarshalContent
  \/ Return(FALSE)

Spec == Init /\ [][Next]_vars

\* ------------------------------------------------------------------------
\* A second specification, for comparing a gzip response with its plain
\* twin: a call whose transport answers with an uncompressed response and
\* no Content-Encoding is followed by a call whose transport answers with
\* the same response, compressed and marked Content-Encoding: gzip
\* ------------------------------------------------------------------------

TwinOptionLists == {<<>>, <<Opt("ExtendOption", <<>>, <<>>)>>}

TwinTimes == {[hi |-> 25000, lo |-> 4660]}

TwinSecrets == {"test-secret"}

TwinAPIOptionLists == {<<APIOpt("HTTPClientOption", "HTTPClientMock")>>}

NextGzip ==
  \/ NewAPI(TwinSecrets, TwinAPIOptionLists)
  \/ ApplyAPIOption
  \/ NewAPIDefaults
  \/ NewAPIReturns
  \/ Forecast(TwinOptionLists)
  \/ TimeMachine(TwinOptionLists, TwinTimes)
  \/ ApplyOption
  \/ NewRequest
  \/ Do
  \/ DoReturns(TRUE, TransportErrors)
  \/ ExtractContent
  \/ UnmarshalContent
  \/ Return(TRUE)

SpecGzip == Init /\ [][NextGzip]_vars

\* ------------------------------------------------------------------------
\* The vocabulary of the claims
\* ------------------------------------------------------------------------

Range(s) == {s[k] : k \in 1..Len(s)}

Largest(S) == CHOOSE x \in S : \A y \in S : y <= x

Smallest(S) == CHOOSE x \in S : \A y \in S : x <= y

\* the call has returned
Returned == pc = "done"

\* the transport answered this call with a response
Responded == resp # NoResponse

\* the members of a JSON object that carry the key
MembersAt(doc, key) ==
  {k \in 2..(Len(doc) - 1) : doc[k].key = key}

\* the body is JSON that fits the error record: a number for "code", a
\* string for "error"
FitsErrorRecord(doc) ==
  /\ IsValidJSON(doc)
  /\ IsObject(doc) =>
       /\ \A k \in MembersAt(doc, "code") : doc[k].t = "num"
       /\ \A k \in MembersAt(doc, "error") : doc[k].t = "str"

\* the "error" field of the body: the last such member, or the empty string
ErrorField(doc) ==
  IF IsObject(doc) /\ MembersAt(doc, "error") # {}
    THEN doc[Largest(MembersAt(doc, "error"))].str
    ELSE ""

\* the body is a JSON object that fits the payload
FitsPayload(doc) ==
  /\ IsObject(doc)
  /\ \A k \in MembersAt(doc, "latitude") : doc[k].t = "num"
  /\ \A k \in MembersAt(doc, "timezone") : doc[k].t = "str"

\* the "latitude" field of the body: the last such member, or zero
LatitudeField(doc) ==
  IF IsObject(doc) /\ MembersAt(doc, "latitude") # {}
    THEN doc[Largest(MembersAt(doc, "latitude"))].num
    ELSE 0

IsDeserializationError(e) == e \in {SyntaxError, UnmarshalTypeError}

\* what a gzip stream carries between its header and its trailer
Payload(body) == SubSeq(body, 2, Len(body) - 1)

\* the text of the response body, decompressed where it is compressed
BodyText(r) ==
  String(IF r.contentEncoding = "gzip" THEN Payload(r.body) ELSE r.body)

\* ------------------------------------------------------------------------
\* The claims
\* ------------------------------------------------------------------------

\* C1: a response with status >= 400 whose Content-Type contains
\* application/json makes the call fail with a nil payload; once the body
\* is read (and decompressed), the error is HTTPError(status, the body's
\* "error" field), with the status of the response and not the "code" of
\* the body, and a body that does not parse as the error record gives the
\* deserialization error instead.
C1_JSONErrorBody ==
  (Returned /\ Responded /\ resp.status >= 400
     /\ Contains(resp.contentType, "application/json"))
  => /\ ret.data = NilData
     /\ ret.err # nil
     /\ parses = 1 =>
          IF FitsErrorRecord(content)
            THEN ret.err = HTTPError(resp.status, ErrorField(content))
            ELSE IsDeserializationError(ret.err)

C1_Witness ==
  /\ Returned
  /\ kind = "TimeMachine"
  /\ resp.status = 403
  /\ resp.contentType = <<"application/json", "; charset=utf8">>
  /\ content = <<LBrace, NumMember("code", 400),
                 StrMember("error", "Location out of bounds"), RBrace>>
  /\ ret.data = NilData
  /\ ret.err.msg = "HTTP 403 Error - Location out of bounds"

\* C2: a response with status >= 400 and Content-Type text/plain makes the
\* call fail with a nil payload and, once the body is read, with an error
\* equal to HTTPError(status, body), the body being the decompressed text.
C2_PlainTextErrorBody ==
  (Returned /\ Responded /\ resp.status >= 400
     /\ resp.contentType = <<"text/plain">>)
  => /\ ret.data = NilData
     /\ ret.err # nil
     /\ parses = 1 => ret.err = HTTPError(resp.status, BodyText(resp))

C2_Witness ==
  /\ Returned
  /\ kind = "Forecast"
  /\ resp.status = 403
  /\ resp.contentType = <<"text/plain">>
  /\ resp.contentEncoding = "gzip"
  /\ content = <<Text("Unauthorized")>>
  /\ ret.data = NilData
  /\ ret.err.msg = "HTTP 403 Error - Unauthorized"

\* C3: with a status below 400 the body is decoded as a payload: a body
\* that is not JSON fails the call with a deserialization error and a nil
\* payload; an empty object, or an object with some of the fields, is
\* returned as a payload with no error.
C3_SuccessBody ==
  (Returned /\ Responded /\ parses = 1 /\ resp.status < 400)
  => /\ ~IsValidJSON(content) =>
          /\ ret.data = NilData
          /\ IsDeserializationError(ret.err)
     /\ FitsPayload(content) =>
          /\ ret.err = nil
          /\ ~ret.data.isNil
          /\ ret.data.latitude = LatitudeField(content)
     /\ content = <<LBrace, RBrace>> => ret = [data |-> ZeroData, err |-> nil]

C3_Witness ==
  /\ Returned
  /\ resp.status = 399
  /\ content = <<LBrace, NumMember("latitude", 37), RBrace>>
  /\ ret.err = nil
  /\ ret.data = [isNil |-> FALSE, latitude |-> 37, timezone |-> ""]

\* C4: a response marked Content-Encoding: gzip with a validly compressed
\* body gives the call the result (payload and error) that the same
\* response gives with the body uncompressed and the header absent; when
\* the body reaches the dispatch on status and content type it is already
\* decompressed.
C4_GzipTransparent ==
  /\ (Returned /\ last.kept /\ resp = GzipTwin(last.resp)) => ret = last.ret
  /\ (pc = "unmarshalContent" /\ resp.contentEncoding = "gzip")
       => /\ gunzips = 1
          /\ parses = 0
          /\ Gzip(content) = resp.body

C4_Witness ==
  /\ Returned
  /\ last.kept
  /\ resp = GzipTwin(last.resp)
  /\ resp.status = 400
  /\ resp.contentType = <<"application/json">>
  /\ parses = 1
  /\ ret.err.msg = "HTTP 400 Error - Location out of bounds"
  /\ ret = last.ret

\* C5: when the transport's Do returns an error the call returns at once
\* with that very error and a nil payload; no body is read, closed,
\* decompressed or parsed.
C5_TransportError ==
  doErr # nil
  => /\ Returned
     /\ ret = [data |-> NilData, err |-> doErr]
     /\ resp = NoResponse
     /\ reads = 0
     /\ closes = 0
     /\ gunzips = 0
     /\ parses = 0
     /\ content = <<>>

C5_Witness ==
  /\ Returned
  /\ kind = "Forecast"
  /\ doCalls = 1
  /\ doErr \in TransportErrors
  /\ ret.err = doErr
  /\ ret.data = NilData

\* C6: whenever the transport returned a response, Close has been called on
\* its body by the time the call returns, on every path: a full read, a
\* failed read, a failed decompression, success.
C6_BodyAlwaysClosed == (Returned /\ Responded) => closes >= 1

\* what the options of a call are, in the words of the claims
SupportedName(s, list) == ToLower(s) \in Range(list)

UnsupportedLanguage(o) ==
  o.fn = "LanguageOption" /\ ~SupportedName(o.arg, supportedLanguages)

UnsupportedUnit(o) ==
  o.fn = "UnitOption" /\ ~SupportedName(o.arg, supportedUnits)

\* the entries of an exclude list that are no supported section name
UnsupportedEntries(list) ==
  {k \in 1..Len(list) : ~SupportedName(list[k], supportedExclude)}

\* the entries of an exclude list that occur again, whatever the case
RepeatedEntries(list) ==
  {k \in 1..Len(list) :
     \E j \in 1..Len(list) : j # k /\ ToLower(list[j]) = ToLower(list[k])}

OptFails(o) ==
  \/ UnsupportedLanguage(o)
  \/ UnsupportedUnit(o)
  \/ o.fn = "ExcludeOption"
       /\ UnsupportedEntries(o.list) \cup RepeatedEntries(o.list) # {}

FailingOptions(os) == {k \in 1..Len(os) : OptFails(os[k])}

\* the exclude options of the call that newRequest reaches: no option
\* before them fails
ReachedExcludes ==
  {k \in 1..Len(opts) :
     /\ opts[k].fn = "ExcludeOption"
     /\ \A j \in 1..(k - 1) : ~OptFails(opts[j])}

\* the build has not produced a request and the transport was not called
NoRequestBuilt ==
  /\ pc \in {"newRequest", "done"}
  /\ req = NoRequest
  /\ doCalls = 0

\* C7: a call with an unsupported language or unit code fails, and the
\* transport's Do is never invoked during it; the error is
\* ErrLanguageNotSupported or ErrUnitNotSupported, according to the option
\* that fails (the first failing one of the list).
C7_UnsupportedCode ==
  (\E k \in 1..Len(opts) : UnsupportedLanguage(opts[k]) \/ UnsupportedUnit(opts[k]))
  => /\ NoRequestBuilt
     /\ Returned =>
          LET f == opts[Smallest(FailingOptions(opts))]
          IN  /\ ret.data = NilData
              /\ ret.err # nil
              /\ UnsupportedLanguage(f) => ret.err = ErrLanguageNotSupported
              /\ UnsupportedUnit(f) => ret.err = ErrUnitNotSupported

C7_Witness ==
  /\ Returned
  /\ kind = "TimeMachine"
  /\ opts = <<Opt("ExtendOption", <<>>, <<>>), Opt("UnitOption", <<"z","z">>, <<>>)>>
  /\ ret = [data |-> NilData, err |-> ErrUnitNotSupported]
  /\ doCalls = 0

\* C8 as stated: an exclude list with two entries that are equal after
\* case-normalization makes the build fail with ErrExcludeOptionNotUnique.
C8_Original ==
  \A k \in ReachedExcludes :
    (Returned /\ RepeatedEntries(opts[k].list) # {})
    => ret.err = ErrExcludeOptionNotUnique

\* C8 amended: such a list makes the build fail; the error is
\* ErrExcludeOptionNotUnique when no unsupported token stands at or before
\* the first repeated entry, and the unsupported-value error otherwise.
C8_DuplicateExclude ==
  \A k \in ReachedExcludes :
    LET list == opts[k].list
    IN  RepeatedEntries(list) # {}
        => /\ NoRequestBuilt
           /\ Returned =>
                /\ ret.data = NilData
                /\ IF \A u \in UnsupportedEntries(list) :
                        u > Smallest(RepeatedEntries(list))
                     THEN ret.err = ErrExcludeOptionNotUnique
                     ELSE ret.err.type = "*excludeOptionError"

C8_Witness ==
  /\ Returned
  /\ kind = "Forecast"
  /\ opts = <<Opt("ExcludeOption", <<>>,
                  << <<"h","o","u","r","l","y">>, <<"H","O","U","R","L","Y">> >>)>>
  /\ ret = [data |-> NilData, err |-> ErrExcludeOptionNotUnique]

\* C9: an exclude list with one token that is no supported section name
\* (and no repeated entry) makes the build fail with the unsupported-value
\* error that carries exactly the token the caller supplied.
C9_EchoesSuppliedToken ==
  \A k \in ReachedExcludes :
    LET list == opts[k].list
    IN  (/\ Returned
         /\ Cardinality(UnsupportedEntries(list)) = 1
         /\ RepeatedEntries(list) = {})
        => /\ ret.data = NilData
           /\ ret.err = newOptionError(list[Smallest(UnsupportedEntries(list))])

\* C10: newRequest applies the options in list order and stops at the
\* first that fails: the call returns that option's error and no request,
\* no later option is applied, and a request exists only when every option
\* succeeded.
C10_FirstFailureAborts ==
  /\ Len(applied) <= Len(opts)
  /\ \A k \in 1..Len(applied) : applied[k] = k
  /\ \A k \in 1..(Len(applied) - 1) : ~OptFails(opts[k])
  /\ pc = "handleRequest" =>
       /\ Len(applied) = Len(opts)
       /\ FailingOptions(opts) = {}
       /\ req # NoRequest
  /\ FailingOptions(opts) # {} => NoRequestBuilt
  /\ (Returned /\ doCalls = 0) =>
       /\ FailingOptions(opts) # {}
       /\ Len(applied) = Smallest(FailingOptions(opts))
       /\ ret = [data |-> NilData,
                 err |-> ApplyOpt(opts[Len(applied)], EmptyValues).err]
       /\ req = NoRequest

C10_Witness ==
  /\ Returned
  /\ kind = "Forecast"
  /\ opts = <<Opt("LanguageOption", <<"x","x">>, <<>>),
              Opt("UnitOption", <<"z","z">>, <<>>)>>
  /\ applied = <<1>>
  /\ ret = [data |-> NilData, err |-> ErrLanguageNotSupported]
  /\ req = NoRequest

\* which parameter an option targets, and the value it sets on its own
KeyOf(o) ==
  CASE o.fn = "LanguageOption" -> languageOptionKey
    [] o.fn = "ExcludeOption" -> excludeOptionKey
    [] o.fn = "ExtendOption" -> extendOptionKey
    [] o.fn = "UnitOption" -> unitOptionKey

ValueOf(o) == ApplyOpt(o, EmptyValues).v[KeyOf(o)][1]

\* the request is built and about to be handed to the transport
RequestBuilt == pc = "handleRequest"

\* C11: in the query of a built request every parameter key holds exactly
\* one value, the one set by the last option of the list that targets the
\* key, and no other key is present: a later option overwrites an earlier
\* one.
C11_LastWriteWins ==
  RequestBuilt
  => /\ DOMAIN q = {KeyOf(opts[k]) : k \in 1..Len(opts)}
     /\ \A key \in DOMAIN q :
          /\ Len(q[key]) = 1
          /\ q[key][1] =
               ValueOf(opts[Largest({k \in 1..Len(opts) : KeyOf(opts[k]) = key})])

C11_Witness ==
  /\ RequestBuilt
  /\ opts = <<Opt("LanguageOption", <<"E","n">>, <<>>),
              Opt("LanguageOption", <<"f","r">>, <<>>)>>
  /\ q = [k \in {languageOptionKey} |-> << <<"f","r">> >>]

\* s spells the code c, in whatever casing
IsCasingOf(s, c) ==
  /\ Len(s) = Len(c)
  /\ \A k \in 1..Len(c) :
       \/ s[k] = c[k]
       \/ \E j \in 1..Len(Lower) : Lower[j] = c[k] /\ Upper[j] = s[k]

\* the option newRequest applied last
LastApplied == opts[applied[Len(applied)]]

\* C12: a LanguageOption or UnitOption given a supported code in any
\* letter-casing succeeds and sets lang, respectively units, to the code
\* as the supported list spells it (lower-case).
C12_AnyCasing ==
  applied # <<>>
  => /\ \A c \in Range(supportedLanguages) :
          (LastApplied.fn = "LanguageOption" /\ IsCasingOf(LastApplied.arg, c))
          => /\ pc # "done"
             /\ languageOptionKey \in DOMAIN q
             /\ q[languageOptionKey] = <<c>>
     /\ \A c \in Range(supportedUnits) :
          (LastApplied.fn = "UnitOption" /\ IsCasingOf(LastApplied.arg, c))
          => /\ pc # "done"
             /\ unitOptionKey \in DOMAIN q
             /\ q[unitOptionKey] = <<c>>

C12_Witness ==
  /\ RequestBuilt
  /\ opts = <<Opt("LanguageOption", <<"E","n">>, <<>>),
              Opt("UnitOption", <<"C","A">>, <<>>)>>
  /\ q[languageOptionKey] = << <<"e","n">> >>
  /\ q[unitOptionKey] = << <<"c","a">> >>

\* the lower-cased entries from position k on, a comma before all but the
\* first
RECURSIVE CommaList(_, _)
CommaList(list, k) ==
  IF k > Len(list) THEN <<>>
  ELSE (IF k > 1 THEN <<",">> ELSE <<>>) \o ToLower(list[k]) \o CommaList(list, k + 1)

\* C13: an ExcludeOption whose entries are all supported section names,
\* in any casing, and none repeated, succeeds and sets exclude to "[", the
\* lower-cased entries in caller order with "," between them, and "]".
C13_ExcludeValue ==
  applied # <<>>
  => LET o == LastApplied
     IN  (/\ o.fn = "ExcludeOption"
          /\ UnsupportedEntries(o.list) = {}
          /\ RepeatedEntries(o.list) = {})
         => /\ pc # "done"
            /\ excludeOptionKey \in DOMAIN q
            /\ q[excludeOptionKey] = << <<"[">> \o CommaList(o.list, 1) \o <<"]">> >>

C13_Witness ==
  /\ RequestBuilt
  /\ opts = <<Opt("ExcludeOption", <<>>,
                  << <<"H","O","U","R","L","Y">>, <<"d","a","i","l","y">> >>)>>
  /\ Str(q[excludeOptionKey][1]) = "[hourly,daily]"

\* the decimal numeral of the Unix seconds hi * 2^16 + lo of a point in
\* time not before the epoch, whatever their size
UnixDecimal(t) ==
  LET low == t.hi * 5536 + t.lo
      tenThousands == t.hi * 6 + low \div 10000
      units == low % 10000
      pad == IF units < 10 THEN "000"
             ELSE IF units < 100 THEN "00"
             ELSE IF units < 1000 THEN "0" ELSE ""
  IN  IF tenThousands = 0 THEN ToString(units)
      ELSE ToString(tenThousands) \o pad \o ToString(units)

\* the path of a request for the coordinates of the call
CoordinatesPath ==
  "/forecast/" \o api.secret \o "/" \o FormatCoord(args.lat) \o ","
  \o FormatCoord(args.lng)

\* C14: the path of a time-machine request ends with "," and the decimal
\* Unix seconds of the time given, also where these lie outside the signed
\* 32-bit range.
C14_UnixSeconds ==
  (RequestBuilt /\ kind = "TimeMachine")
  => path = CoordinatesPath \o "," \o UnixDecimal(args.time)

\* the Unix seconds of the time lie in the signed 32-bit range
InInt32(t) == t.hi < 32768

C16_RequestHeaders ==
  /\ req # NoRequest => RequestBuilt
  /\ RequestBuilt
     => /\ req.method = "GET"
        /\ DOMAIN req.header = {"Accept-Encoding", "Accept"}
        /\ req.header["Accept-Encoding"] = <<"gzip">>
        /\ req.header["Accept"] = <<"application/json">>

C16_Witness ==
  /\ RequestBuilt
  /\ kind = "TimeMachine"
  /\ Len(opts) = 2
  /\ req.method = "GET"
  /\ req.header["Accept"] = <<"application/json">>

\* C17: a call invokes the transport's Do at most once: not before the
\* request is built, once from then on, and at its return never when the
\* build failed and exactly once otherwise, whatever error it returns.
C17_NoRetry ==
  /\ doCalls <= 1
  /\ pc \in {"idle", "newRequest", "handleRequest"} => doCalls = 0
  /\ pc \in {"Do", "extractContent", "unmarshalContent"} => doCalls = 1
  /\ Returned =>
       IF FailingOptions(opts) # {}
         THEN doCalls = 0 /\ ret.err # nil
         ELSE doCalls = 1

C17_Witness ==
  /\ Returned
  /\ doCalls = 1
  /\ ret.err \in TransportErrors

\* NewAPI is running or has just returned
InNewAPI == ctor.pc # "idle"

\* C18: NewAPI with an empty secret fails with ErrEmptySecret and returns
\* no client, whatever the options, none of which is applied; and where
\* the caller holds no client no call is under way and no request exists.
C18_EmptySecret ==
  /\ (InNewAPI /\ ctor.secret = "")
     => /\ ctor.pc = "done"
        /\ ctor.ret = [api |-> NilAPI, err |-> ErrEmptySecret]
        /\ ctor.applied = <<>>
        /\ ctor.api = NilAPI
  /\ api = NilAPI => (pc = "idle" /\ req = NoRequest /\ doCalls = 0)

C18_Witness ==
  /\ ctor.pc = "done"
  /\ ctor.secret = ""
  /\ ctor.opts = <<APIOpt("HTTPClientOption", "HTTPClientMock"),
                   APIOpt("LoggerOption", "custom logger")>>
  /\ ctor.ret.err = ErrEmptySecret
  /\ api = NilAPI

\* the options of the NewAPI call that are given nil
NilAPIOptions == {k \in 1..Len(ctor.opts) : ctor.opts[k].arg = NilValue}

\* the argument of the last option of the kind, or the default with none
LastOr(fn, default) ==
  LET ks == {k \in 1..Len(ctor.opts) : ctor.opts[k].fn = fn}
  IN  IF ks = {} THEN default ELSE ctor.opts[Largest(ks)].arg

\* C19: NewAPI with a non-empty secret and an option given nil fails with
\* the error of the first such option in list order (ErrNilHTTPCLient for
\* HTTPClientOption, ErrNilLogger for LoggerOption) and returns no client;
\* when every option succeeds the client returned has the secret, a
\* transport and a logger, the defaults where none was supplied.
C19_NilOption ==
  /\ (ctor.pc = "done" /\ ctor.secret # "")
     => IF NilAPIOptions # {}
          THEN /\ ctor.ret.api = NilAPI
               /\ ctor.ret.err =
                    (IF ctor.opts[Smallest(NilAPIOptions)].fn = "HTTPClientOption"
                       THEN ErrNilHTTPCLient ELSE ErrNilLogger)
               /\ ctor.applied = [k \in 1..Smallest(NilAPIOptions) |-> k]
          ELSE /\ ctor.ret.err = nil
               /\ ctor.ret.api =
                    [secret |-> ctor.secret,
                     client |-> LastOr("HTTPClientOption", DefaultClient),
                     logger |-> LastOr("LoggerOption", DefaultLogger)]
               /\ ctor.ret.api.client # NilValue
               /\ ctor.ret.api.logger # NilValue
  /\ api # NilAPI => (api.secret # "" /\ api.client # NilValue /\ api.logger # NilValue)

C19_Witness ==
  /\ ctor.pc = "done"
  /\ ctor.secret = "test-secret"
  /\ ctor.opts = <<APIOpt("LoggerOption", NilValue),
                   APIOpt("HTTPClientOption", NilValue)>>
  /\ ctor.ret = [api |-> NilAPI, err |-> ErrNilLogger]

\* C20: once the caller holds a client, no step of a Forecast or
\* TimeMachine call, whether it succeeds or fails, changes the client's
\* secret, transport or logger.
C20_ClientReadOnly == [][api # NilAPI => api' = api]_vars

C20_Witness ==
  /\ api = [secret |-> "test-secret", client |-> "HTTPClientMock",
            logger |-> "custom logger"]
  /\ Returned
  /\ doCalls = 1
  /\ ret.data = NilData
  /\ IsDeserializationError(ret.err)

\* ------------------------------------------------------------------------
\* What a call does, as functions of what it is given
\* ------------------------------------------------------------------------

\* newRequest's loop from position k on: the error of the first option
\* that fails, and the query values
RECURSIVE ApplyAll(_, _, _)
ApplyAll(os, k, v) ==
  IF k > Len(os) THEN [err |-> nil, v |-> v]
  ELSE LET r == ApplyOpt(os[k], v)
       IN  IF r.err # nil THEN r ELSE ApplyAll(os, k + 1, r.v)

\* handleRequest from the response on, for a body that can be read: what
\* it returns, whether or not closing the body succeeds
ResultOf(r) ==
  LET gz == uncompressGzip(r.body, <<>>)
      c == IF r.contentEncoding = "gzip" THEN gz.b ELSE r.body
      u == unmarshalContent(r, c)
  IN  IF r.contentEncoding = "gzip" /\ gz.err # nil
        THEN [data |-> NilData, err |-> gz.err]
      ELSE IF u.err # nil THEN [data |-> NilData, err |-> u.err]
      ELSE [data |-> u.data, err |-> nil]

\* the response is an error of the API: status >= 400 and a body that is
\* plain text or fits the error record
IsAPIError ==
  /\ Responded
  /\ parses = 1
  /\ resp.status >= 400
  /\ \/ resp.contentType = <<"text/plain">>
     \/ Contains(resp.contentType, "application/json") /\ FitsErrorRecord(content)

\* C22: an error of the API reaches the caller as an error of a kind of
\* its own, which holds the status code and the message as data.
C22_InspectableKind ==
  (Returned /\ IsAPIError)
  => /\ ret.err.type # "*errors.errorString"
     /\ ret.err.value # <<>>

\* C23: a failure of closing the response body (or the gzip reader) is
\* written to the logger and not returned: the call returns what it
\* returns when closing succeeds, and the log holds the failures of the
\* gzip reader and of the body, in this order.
C23_CloseFailureLogged ==
  (Returned /\ Responded /\ ~resp.readErr)
  => /\ ret = ResultOf([resp EXCEPT !.closeErr = FALSE])
     /\ log = (IF resp.contentEncoding = "gzip" /\ ret.err = ErrUnexpectedEOF
                 THEN <<ErrUnexpectedEOF.msg>> ELSE <<>>)
              \o (IF resp.closeErr THEN <<ErrClose.msg>> ELSE <<>>)

C23_Witness ==
  /\ Returned
  /\ resp.closeErr
  /\ resp.status = 200
  /\ resp.contentEncoding = "gzip"
  /\ ret = [data |-> [isNil |-> FALSE, latitude |-> 37, timezone |-> ""], err |-> nil]
  /\ log = <<"close: already closed">>

\* the body is a complete gzip stream
IsGzipStream(body) ==
  /\ Len(body) >= 2
  /\ body[1] = GzipHeader
  /\ body[Len(body)] = GzipTrailer(Len(body) - 2)

\* C24: a response marked Content-Encoding: gzip whose body is no complete
\* gzip stream fails the call with the error of the decompression and a
\* nil payload, and the body is never parsed: a bad header gives the
\* header error, a cut stream the unexpected end.
C24_CorruptGzip ==
  (Returned /\ Responded /\ ~resp.readErr /\ resp.contentEncoding = "gzip"
     /\ ~IsGzipStream(resp.body))
  => /\ ret.data = NilData
     /\ ret.err \in {EOF, ErrHeader, ErrUnexpectedEOF, ErrChecksum}
     /\ (resp.body # <<>> /\ resp.body[1] # GzipHeader) => ret.err = ErrHeader
     /\ (resp.body # <<>> /\ resp.body[1] = GzipHeader
           /\ resp.body[Len(resp.body)].t # "gzip-trailer") => ret.err = ErrUnexpectedEOF
     /\ gunzips = 1
     /\ parses = 0
     /\ content = <<>>

C24_Witness ==
  /\ Returned
  /\ kind = "TimeMachine"
  /\ resp.status = 200
  /\ resp.contentEncoding = "gzip"
  /\ resp.body = <<GzipHeader, LBrace, RBrace>>
  /\ ret = [data |-> NilData, err |-> ErrUnexpectedEOF]
  /\ parses = 0

C26_ExactlyOneOutcome ==
  Returned
  => \/ ret.data # NilData /\ ret.err = nil
     \/ ret.data = NilData /\ ret.err # nil

\* C27: ExcludeOption examines the lower-cased entries in list order,
\* support before uniqueness: it fails with the error of the first entry
\* that is unsupported (the unsupported-value error carrying the
\* lower-cased entry) or repeated (the not-unique error), and succeeds
\* when there is none.
C27_ExcludeOrder ==
  (applied # <<>> /\ LastApplied.fn = "ExcludeOption")
  => LET list == LastApplied.list
         bad == UnsupportedEntries(list) \cup RepeatedEntries(list)
     IN  IF bad = {}
           THEN pc # "done"
           ELSE /\ pc = "done"
                /\ ret.data = NilData
                /\ ret.err =
                     (IF Smallest(bad) \in UnsupportedEntries(list)
                        THEN newOptionError(ToLower(list[Smallest(bad)]))
                        ELSE ErrExcludeOptionNotUnique)

C27_Witness ==
  /\ Returned
  /\ opts = <<Opt("ExcludeOption", <<>>,
                  << <<"h","o","u","r","l","y">>, <<"T","E","S","T">>,
                     <<"H","O","U","R","L","Y">> >>)>>
  /\ ret.err = ErrExcludeOptionNotUnique

\* C28: the round of newRequest's loop in which an option fails leaves the
\* query values as they were: no key is added, removed or changed.
C28_FailedOptionKeepsQuery ==
  [][(pc = "newRequest" /\ pc' = "done") => q' = q]_vars

C28_Witness ==
  /\ Returned
  /\ doCalls = 0
  /\ opts = <<Opt("LanguageOption", <<"E","n">>, <<>>),
              Opt("UnitOption", <<"z","z">>, <<>>)>>
  /\ applied = <<1, 2>>
  /\ ret.err = ErrUnitNotSupported
  /\ q = [k \in {languageOptionKey} |-> << <<"e","n">> >>]

\* C29: ExcludeOption with an empty list does not fail and sets exclude
\* to "[]"; a request built with this option alone has the query
\* exclude=%5B%5D.
C29_EmptyExclude ==
  /\ (applied # <<>> /\ LastApplied = Opt("ExcludeOption", <<>>, <<>>))
     => /\ pc # "done"
        /\ excludeOptionKey \in DOMAIN q
        /\ q[excludeOptionKey] = << <<"[", "]">> >>
  /\ (RequestBuilt /\ kind = "Forecast" /\ opts = <<Opt("ExcludeOption", <<>>, <<>>)>>)
     => req.url = "https://api.darksky.net" \o CoordinatesPath \o "?exclude=%5B%5D"

C29_Witness ==
  /\ RequestBuilt
  /\ kind = "Forecast"
  /\ opts = <<Opt("ExcludeOption", <<>>, <<>>)>>
  /\ req.url = "https://api.darksky.net/forecast/test-secret/37.8267,-122.4233?exclude=%5B%5D"

\* the lists that hold the options of os in another order
Reorderings(os) ==
  {[k \in 1..Len(os) |-> os[f[k]]] :
     f \in {g \in [1..Len(os) -> 1..Len(os)] :
              \A j, k \in 1..Len(os) : j # k => g[j] # g[k]}}

\* the URL newRequest builds for the path of the call and the options os
URLOf(os) == URLString(path, Encode(ApplyAll(os, 1, EmptyValues).v))

\* C30: the URL of a built request does not depend on the order of the
\* options when no two of them target the same key, and an option given
\* twice gives the URL it gives once.
C30_OrderIndependent ==
  RequestBuilt
  => /\ (\A j, k \in 1..Len(opts) : j # k => KeyOf(opts[j]) # KeyOf(opts[k]))
          => \A os \in Reorderings(opts) : req.url = URLOf(os)
     /\ (Len(opts) = 2 /\ opts[1] = opts[2]) => req.url = URLOf(<<opts[1]>>)

C30_Witness ==
  /\ RequestBuilt
  /\ kind = "Forecast"
  /\ opts = <<Opt("UnitOption", <<"C","A">>, <<>>),
              Opt("LanguageOption", <<"E","n">>, <<>>)>>
  /\ req.url =
       "https://api.darksky.net/forecast/test-secret/37.8267,-122.4233?lang=en&units=ca"

\* ------------------------------------------------------------------------
\* A third specification: several goroutines call Forecast or TimeMachine
\* on one client at the same time, one call each.  Each caller has the
\* locals of its call in calls; the client and the logger are the ones all
\* callers share.
\* ------------------------------------------------------------------------

\* what the single caller of the other specifications holds
single == <<pc, kind, opts, path, args, i, q, applied, req, resp, doErr, content,
            ret, doCalls, reads, closes, gunzips, parses, last>>

\* the option lists, the time and the answers of the transport the
\* concurrent callers use
ConcurrentOptionLists ==
  {<<Opt("LanguageOption", <<"e","n">>, <<>>)>>,
   <<Opt("UnitOption", <<"s","i">>, <<>>), Opt("ExtendOption", <<>>, <<>>)>>,
   <<Opt("LanguageOption", <<"x","x">>, <<>>)>>}

ConcurrentTimes == {[hi |-> 25000, lo |-> 4660]}

ConcurrentAPIOptionLists == {<<>>, <<APIOpt("HTTPClientOption", "HTTPClientMock")>>}

ConcurrentErrors == {GoError("*url.Error", "Get: no such host", <<>>)}

ConcurrentResponses ==
  {Response(200, <<"application/json">>, "gzip",
            Gzip(<<LBrace, NumMember("latitude", 37), RBrace>>), FALSE, TRUE),
   Response(403, <<"text/plain">>, "", <<Text("Unauthorized")>>, FALSE, FALSE)}

\* a caller calls Forecast: the path is formatted from the client's secret
\* and newRequest starts with query values of its own
CallForecast(c, lists) ==
  /\ api # NilAPI
  /\ calls[c].pc = "idle"
  /\ \E co \in Coordinates, o \in lists :
       calls' = [calls EXCEPT ![c] =
                   [NoCall EXCEPT !.pc = "newRequest", !.kind = "Forecast",
                                  !.opts = o, !.i = 1, !.q = EmptyValues,
                                  !.path = ForecastPath(api.secret, co.lat, co.lng),
                                  !.args = [lat |-> co.lat, lng |-> co.lng,
                                            time |-> NoTime]]]
  /\ UNCHANGED <<api, ctor, single, log>>

\* a caller calls TimeMachine
CallTimeMachine(c, lists, times) ==
  /\ api # NilAPI
  /\ calls[c].pc = "idle"
  /\ \E co \in Coordinates, t \in times, o \in lists :
       calls' = [calls EXCEPT ![c] =
                   [NoCall EXCEPT !.pc = "newRequest", !.kind = "TimeMachine",
                                  !.opts = o, !.i = 1, !.q = EmptyValues,
                                  !.path = TimeMachinePath(api.secret, co.lat, co.lng, t),
                                  !.args = [lat |-> co.lat, lng |-> co.lng,
                                            time |-> t]]]
  /\ UNCHANGED <<api, ctor, single, log>>

\* newRequest's loop, had q been a variable of the package: what an option
\* sets is set for every caller that is in newRequest
CallApplyOption_sharedQuery(c) ==
  /\ calls[c].pc = "newRequest"
  /\ calls[c].i <= Len(calls[c].opts)
  /\ LET k == calls[c]
         r == ApplyOpt(k.opts[k.i], k.q)
     IN  calls' = [d \in Callers |->
                     IF d = c
                       THEN IF r.err # nil
                              THEN [k EXCEPT !.q = r.v, !.pc = "done",
                                             !.ret = [data |-> NilData, err |-> r.err]]
                              ELSE [k EXCEPT !.q = r.v, !.i = k.i + 1]
                     ELSE IF calls[d].pc = "newRequest"
                       THEN [calls[d] EXCEPT !.q = r.v]
                     ELSE calls[d]]
  /\ UNCHANGED <<api, ctor, single, log>>

\* one round of the loop of a caller's newRequest, on the caller's q
CallApplyOption(c) ==
  /\ calls[c].pc = "newRequest"
  /\ calls[c].i <= Len(calls[c].opts)
  /\ LET k == calls[c]
         r == ApplyOpt(k.opts[k.i], k.q)
     IN  calls' = [calls EXCEPT ![c] =
                     IF r.err # nil
                       THEN [k EXCEPT !.q = r.v, !.pc = "done",
                                      !.ret = [data |-> NilData, err |-> r.err]]
                       ELSE [k EXCEPT !.q = r.v, !.i = k.i + 1]]
  /\ UNCHANGED <<api, ctor, single, log>>

\* a caller's newRequest builds the request
CallNewRequest(c) ==
  /\ calls[c].pc = "newRequest"
  /\ calls[c].i > Len(calls[c].opts)
  /\ calls' = [calls EXCEPT ![c].req = BuiltRequest(calls[c].path, calls[c].q),
                            ![c].pc = "handleRequest"]
  /\ UNCHANGED <<api, ctor, single, log>>

\* a caller's handleRequest hands the request to the client's transport
CallDo(c) ==
  /\ calls[c].pc = "handleRequest"
  /\ calls' = [calls EXCEPT ![c].pc = "Do"]
  /\ UNCHANGED <<api, ctor, single, log>>

\* the transport answers a caller
CallDoReturns(c, errors, responses) ==
  /\ calls[c].pc = "Do"
  /\ \/ \E e \in errors :
          calls' = [calls EXCEPT ![c].doErr = e, ![c].pc = "done",
                                 ![c].ret = [data |-> NilData, err |-> e]]
     \/ \E r \in responses :
          calls' = [calls EXCEPT ![c].resp = r, ![c].pc = "extractContent"]
  /\ UNCHANGED <<api, ctor, single, log>>

\* a caller's extractContent: what close and uncompressGzip print goes to
\* the logger of the client
CallExtractContent(c) ==
  /\ calls[c].pc = "extractContent"
  /\ LET k == calls[c]
         gz == uncompressGzip(k.resp.body, log)
         closeErr == IF k.resp.closeErr THEN ErrClose ELSE nil
     IN  IF k.resp.readErr
           THEN /\ calls' = [calls EXCEPT ![c].pc = "done",
                                          ![c].ret = [data |-> NilData, err |-> ErrRead]]
                /\ UNCHANGED log
         ELSE IF k.resp.contentEncoding = "gzip"
           THEN /\ log' = close(closeErr, gz.log)
                /\ calls' = [calls EXCEPT ![c] =
                               IF gz.err # nil
                                 THEN [k EXCEPT !.pc = "done",
                                                !.ret = [data |-> NilData, err |-> gz.err]]
                                 ELSE [k EXCEPT !.pc = "unmarshalContent",
                                                !.content = gz.b]]
         ELSE /\ log' = close(closeErr, log)
              /\ calls' = [calls EXCEPT ![c].pc = "unmarshalContent",
                                        ![c].content = k.resp.body]
  /\ UNCHANGED <<api, ctor, single>>

\* a caller's handleRequest returns what unmarshalContent returns
CallUnmarshalContent(c) ==
  /\ calls[c].pc = "unmarshalContent"
  /\ LET r == unmarshalContent(calls[c].resp, calls[c].content)
     IN  calls' = [calls EXCEPT ![c].pc = "done",
                                ![c].ret = IF r.err # nil
                                             THEN [data |-> NilData, err |-> r.err]
                                             ELSE [data |-> r.data, err |-> r.err]]
  /\ UNCHANGED <<api, ctor, single, log>>

NextConcurrent ==
  \/ NewAPI({"test-secret"}, ConcurrentAPIOptionLists)
  \/ ApplyAPIOption
  \/ NewAPIDefaults
  \/ NewAPIReturns
  \/ \E c \in Callers : CallForecast(c, ConcurrentOptionLists)
  \/ \E c \in Callers : CallTimeMachine(c, ConcurrentOptionLists, ConcurrentTimes)
  \/ \E c \in Callers : CallApplyOption(c)
  \/ \E c \in Callers : CallNewRequest(c)
  \/ \E c \in Callers : CallDo(c)
  \/ \E c \in Callers : CallDoReturns(c, ConcurrentErrors, ConcurrentResponses)
  \/ \E c \in Callers : CallExtractContent(c)
  \/ \E c \in Callers : CallUnmarshalContent(c)

SpecConcurrent == Init /\ [][NextConcurrent]_vars

\* the path a call formats from the client's secret and its arguments
PathAlone(k) ==
  IF k.kind = "Forecast"
    THEN ForecastPath(api.secret, k.args.lat, k.args.lng)
    ELSE TimeMachinePath(api.secret, k.args.lat, k.args.lng, k.args.time)

\* the request a call sends when it is the only one
RequestAlone(k) == BuiltRequest(PathAlone(k), ApplyAll(k.opts, 1, EmptyValues).v)

\* what a call returns when it is the only one, given the answer of the
\* transport
ResultAlone(k) ==
  LET built == ApplyAll(k.opts, 1, EmptyValues)
  IN  IF built.err # nil THEN [data |-> NilData, err |-> built.err]
      ELSE IF k.doErr # nil THEN [data |-> NilData, err |-> k.doErr]
      ELSE IF k.resp.readErr THEN [data |-> NilData, err |-> ErrRead]
      ELSE ResultOf(k.resp)

\* the call of a caller as far as it has come is the call it would be alone
CallAlone(k) ==
  /\ k.pc # "idle" => k.path = PathAlone(k)
  /\ k.req # NoRequest => k.req = RequestAlone(k)
  /\ k.pc \in {"handleRequest", "Do", "extractContent", "unmarshalContent"}
       => k.req # NoRequest
  /\ k.pc = "done" => k.ret = ResultAlone(k)

\* C21: calls that run at the same time on one client, in any interleaving,
\* each send the request and return the result they send and return when
\* run alone, and no step of a call writes the fields of the client.
C21_CallsIndependent ==
  /\ [](\A c \in Callers : CallAlone(calls[c]))
  /\ [][api # NilAPI => api' = api]_vars

\* two calls in flight at once: one has returned the payload of its
\* response while the other, with other options, still waits for the
\* transport
C21_Witness ==
  /\ calls[1].pc = "done"
  /\ calls[1].kind = "Forecast"
  /\ calls[1].opts = <<Opt("LanguageOption", <<"e","n">>, <<>>)>>
  /\ calls[1].ret = [data |-> [isNil |-> FALSE, latitude |-> 37, timezone |-> ""],
                     err |-> nil]
  /\ calls[2].pc = "Do"
  /\ calls[2].kind = "TimeMachine"
  /\ Len(calls[2].opts) = 2
  /\ log = <<ErrClose.msg>>

====
